---- MODULE Spec2Model ----
(***************************************************************************)
(* The stream reconciliation engine of the shopping-agent chat front end   *)
(* (src/frontend/src/components/Chat.tsx): the ChatState held by the Chat  *)
(* component, sendMessageWithQuery / sendExampleMessage, the chunk read    *)
(* loop with its line buffer, and one reducer per server-sent event type.  *)
(*                                                                         *)
(* Every setChatState(prev => ...) of the source is an operator from a     *)
(* ChatState record to a ChatState record.  JavaScript runs one task at a  *)
(* time: an invocation of sendMessageWithQuery only yields at its awaits   *)
(* (fetch, reader.read), so the lines of one chunk are handled without any *)
(* other invocation or user gesture in between.                            *)
(*                                                                         *)
(* Wire text is a sequence of symbols, each a tuple of strings: the line   *)
(* marker <<"data: ">>, the line break <<"\n">>, and payload texts.  A     *)
(* payload text that is a JSON object is the 4-tuple                       *)
(* <<type, a, b, x>>; any other tuple is text that JSON.parse rejects.     *)
(* The static label / isLongRunning of a stage and the input text box are  *)
(* presentation state and are left out.                                    *)
(***************************************************************************)
EXTENDS Integers, Sequences, FiniteSets, TLC

VARIABLES
    chatState,  \* the ChatState of useState<ChatState>
    streams,    \* one record per accepted send: that invocation's locals
    now,        \* the clock read by Date.now()
    ev          \* history: the call or stream event handled by the last step

vars == <<chatState, streams, now, ev>>

----------------------------------------------------------------------------
(* Bounds of the model *)

MaxTurns == 2        \* accepted sends
MaxChunks == 3       \* chunks read, summed over all streams
MaxChunkLines == 2   \* complete lines in one chunk
MaxTime == 3         \* last value of the clock

----------------------------------------------------------------------------
(* Values *)

NoId == <<>>                      \* null for currentStreamingMessageId / currentRequestId
NoSession == ""                   \* null for sessionId
NoWorkflow == "null"              \* null for workflowType
RandomUUID == "uuid"              \* crypto.randomUUID()
ApologyText == <<"apology">>      \* the fixed text of the failure entry

DataMarker == <<"data: ">>
NL == <<"\n">>
DoneText == <<"[DONE]">>
GarbageText == <<"garbage">>
BlankText == <<" ">>

\* getProcessSteps: the ids of the unified stage list, in order.
StepIds ==
    << "start", "analyze_query", "optimize_search_query", "search_products",
       "filter_product_links", "extract_product_data", "validate_and_select",
       "generate_final_response" >>

getProcessSteps == [i \in 1..Len(StepIds) |-> [id |-> StepIds[i], status |-> "pending"]]

\* The ids the fast-forward marks completed.
FastForwardIds ==
    { "start", "analyze_query", "optimize_search_query", "search_products",
      "filter_product_links", "extract_product_data", "validate_and_select" }

\* The ids excluded from being completion signals.
NonCompletionIds ==
    { "analyze_query", "optimize_search_query", "search_products",
      "filter_product_links", "extract_product_data", "validate_and_select",
      "generate_final_response", "generate_suggested_questions",
      "handle_general_query" }

\* stepOrder of the general and of the search workflow.
GeneralOrder == << "start", "analyze_query", "generate_final_response" >>
SearchOrder == StepIds

\* The completion signals and the stage each one completes.
CompletionPairs ==
    { <<"query_analyzed", "analyze_query">>,
      <<"search_optimized", "optimize_search_query">>,
      <<"search_completed", "search_products">>,
      <<"links_filtered", "filter_product_links">>,
      <<"data_extracted", "extract_product_data">>,
      <<"products_selected", "validate_and_select">> }

\* stepId.includes('_') over the stage signals the model sends: the two
\* signals without an underscore are "start" and "completed".
IncludesUnderscore(stepId) == stepId \notin {"start", "completed", "unknown"}

----------------------------------------------------------------------------
(* Helpers on sequences *)

RECURSIVE SelectSeqNot(_, _)
\* array.filter(msg => msg.type !== t)
SelectSeqNot(s, t) ==
    IF s = <<>> THEN <<>>
    ELSE IF Head(s).type = t THEN SelectSeqNot(Tail(s), t)
         ELSE <<Head(s)>> \o SelectSeqNot(Tail(s), t)

\* array.indexOf(x): 0-based, -1 when absent
IndexOf(s, x) ==
    IF \E i \in DOMAIN s : s[i] = x
    THEN (CHOOSE i \in DOMAIN s : s[i] = x /\ \A j \in DOMAIN s : s[j] = x => i <= j) - 1
    ELSE -1

\* array.findIndex(msg => msg.id === id): 1-based here, 0 when absent
FindIndexById(msgs, id) ==
    IF \E i \in DOMAIN msgs : msgs[i].id = id
    THEN CHOOSE i \in DOMAIN msgs : msgs[i].id = id /\ \A j \in DOMAIN msgs : msgs[j].id = id => i <= j
    ELSE 0

RECURSIVE Trim(_)
\* String.prototype.trim over a sequence of characters
Trim(q) ==
    IF q = <<>> THEN <<>>
    ELSE IF Head(q) = " " THEN Trim(Tail(q))
    ELSE IF q[Len(q)] = " " THEN Trim(SubSeq(q, 1, Len(q) - 1))
    ELSE q

RECURSIVE SplitNL(_)
\* buffer.split('\n')
SplitNL(text) ==
    IF \E i \in DOMAIN text : text[i] = NL
    THEN LET i == CHOOSE k \in DOMAIN text : text[k] = NL /\ \A j \in 1..(k - 1) : text[j] # NL
         IN <<SubSeq(text, 1, i - 1)>> \o SplitNL(SubSeq(text, i + 1, Len(text)))
    ELSE <<text>>

----------------------------------------------------------------------------
(* Messages *)

\* A Message; the optional fields of the interface carry a null value when absent.
Message(id, type, content) ==
    [ id |-> id, type |-> type, content |-> content,
      isStreaming |-> FALSE,          \* metadata.isStreaming
      tool_name |-> "",               \* metadata.tool_name
      status |-> "",                  \* metadata.status
      output_summary |-> <<>>,        \* metadata.output_summary
      processSteps |-> <<>>,
      requestId |-> NoId,
      searchMetadata |-> "",
      suggestedQuestions |-> <<>> ]

\* prev.messages.map(msg => msg.requestId === prev.currentRequestId &&
\*                          msg.type === 'user' ? {...msg, processSteps} : msg)
SetUserSteps(msgs, requestId, steps) ==
    [i \in DOMAIN msgs |->
        IF msgs[i].requestId = requestId /\ msgs[i].type = "user"
        THEN [msgs[i] EXCEPT !.processSteps = steps]
        ELSE msgs[i]]

AllCompleted(steps) == [i \in DOMAIN steps |-> [steps[i] EXCEPT !.status = "completed"]]

----------------------------------------------------------------------------
(* The step handler: setChatState(prev => ...) of parsed.type === 'step' *)

\* const isCompletion = stepId.includes('_') && ![...].includes(stepId)
IsCompletion(stepId) == IncludesUnderscore(stepId) /\ stepId \notin NonCompletionIds

\* Fast-forward: complete the intermediate stages, run the final response.
FastForward(steps) ==
    [i \in DOMAIN steps |->
        IF steps[i].id \in FastForwardIds THEN [steps[i] EXCEPT !.status = "completed"]
        ELSE IF steps[i].id = "generate_final_response" THEN [steps[i] EXCEPT !.status = "running"]
        ELSE steps[i]]

\* The workflow type after a step event.
DetectWorkflow(workflowType, stepId) ==
    IF stepId = "handle_general_query" /\ workflowType # "general" THEN "general"
    ELSE IF stepId = "optimize_search_query" /\ workflowType # "search" THEN "search"
    ELSE workflowType

\* The sequential branch without 3-1: earlier stages are left as they are.
SequentialStep_KeepEarlier(step, stepId, stepOrder) ==
    LET currentStepIndex == IndexOf(stepOrder, stepId)
        thisStepIndex == IndexOf(stepOrder, step.id)
    IN IF step.id = stepId
       THEN [step EXCEPT !.status = "running"]
       ELSE IF currentStepIndex < thisStepIndex
       THEN [step EXCEPT !.status = "pending"]
       ELSE step

\* The sequential branch in which a repeated signal completes its stage.
SequentialStep_Advance(step, stepId, stepOrder) ==
    LET currentStepIndex == IndexOf(stepOrder, stepId)
        thisStepIndex == IndexOf(stepOrder, step.id)
    IN IF currentStepIndex > thisStepIndex
       THEN [step EXCEPT !.status = "completed"]
       ELSE IF step.id = stepId
               \/ (stepId = "extracting_product_details" /\ step.id = "extract_product_data")
       THEN [step EXCEPT !.status = IF @ = "running" THEN "completed" ELSE "running"]
       ELSE IF currentStepIndex < thisStepIndex
       THEN [step EXCEPT !.status = "pending"]
       ELSE step

\* Sequential branch of the map callback (isCompletion = false).
SequentialStep(step, stepId, stepOrder) ==
    LET currentStepIndex == IndexOf(stepOrder, stepId)
        thisStepIndex == IndexOf(stepOrder, step.id)
    IN IF currentStepIndex > thisStepIndex
       THEN [step EXCEPT !.status = "completed"]
       ELSE IF step.id = stepId
               \/ (stepId = "extracting_product_details" /\ step.id = "extract_product_data")
       THEN [step EXCEPT !.status = "running"]
       ELSE IF currentStepIndex < thisStepIndex
       THEN [step EXCEPT !.status = "pending"]
       ELSE step

\* Completion branch of the map callback (isCompletion = true).
CompleteMatching(step, stepId) ==
    IF <<stepId, step.id>> \in CompletionPairs
    THEN [step EXCEPT !.status = "completed"]
    ELSE step

\* The callback of stepsToUse.map(step => ...).
UpdateStep(step, stepId, stepOrder) ==
    IF IsCompletion(stepId)
    THEN CompleteMatching(step, stepId)
    ELSE SequentialStep(step, stepId, stepOrder)

StepHandler(prev, stepId) ==
    LET general == stepId = "handle_general_query" /\ prev.workflowType # "general"
        workflowType == DetectWorkflow(prev.workflowType, stepId)
        stepsToUse == IF general THEN FastForward(prev.processSteps) ELSE prev.processSteps
        stepOrder == IF workflowType = "general" THEN GeneralOrder ELSE SearchOrder
        updatedSteps ==
            IF workflowType # "general" \/ stepId # "handle_general_query"
            THEN [i \in DOMAIN stepsToUse |-> UpdateStep(stepsToUse[i], stepId, stepOrder)]
            ELSE stepsToUse
    IN [prev EXCEPT
          !.processSteps = updatedSteps,
          !.messages = SetUserSteps(prev.messages, prev.currentRequestId, updatedSteps),
          !.workflowType = workflowType]

\* setChatState(prev => ...) of parsed.type === 'step_complete'
StepCompleteHandler(prev, completed_step) ==
    LET updatedSteps ==
            [i \in DOMAIN prev.processSteps |->
                IF prev.processSteps[i].id = completed_step
                THEN [prev.processSteps[i] EXCEPT !.status = "completed"]
                ELSE prev.processSteps[i]]
    IN [prev EXCEPT
          !.processSteps = updatedSteps,
          !.messages = SetUserSteps(prev.messages, prev.currentRequestId, updatedSteps)]

\* The search_metadata handler without its requestId test: every user entry.
SearchMetadataHandler_AllUsers(prev, metadata) ==
    [prev EXCEPT !.messages =
        [i \in DOMAIN prev.messages |->
            IF prev.messages[i].type = "user"
            THEN [prev.messages[i] EXCEPT !.searchMetadata = metadata]
            ELSE prev.messages[i]]]

\* setChatState(prev => ...) of parsed.type === 'search_metadata'
SearchMetadataHandler(prev, metadata) ==
    [prev EXCEPT !.messages =
        [i \in DOMAIN prev.messages |->
            IF prev.messages[i].requestId = prev.currentRequestId /\ prev.messages[i].type = "user"
            THEN [prev.messages[i] EXCEPT !.searchMetadata = metadata]
            ELSE prev.messages[i]]]

----------------------------------------------------------------------------
(* The message aggregator: token, tool_start, tool_end, complete *)

\* The streaming entry a first token creates.
NewStreamingMessage(t, content) ==
    [Message(<<t, "_ai">>, "ai", content) EXCEPT !.isStreaming = TRUE]

\* prev.currentStreamingMessageId set: append to the entry with that id.
AppendToken(prev, content) ==
    LET messageIndex == FindIndexById(prev.messages, prev.currentStreamingMessageId)
    IN IF messageIndex # 0
       THEN [prev EXCEPT !.messages[messageIndex].content = @ \o content]
       ELSE prev

\* no current streaming message: start the assistant entry of the turn.
StartStreaming(prev, content, t) ==
    LET newMessages == SelectSeqNot(prev.messages, "system")
        completedSteps == AllCompleted(prev.processSteps)
        updatedMessages == SetUserSteps(newMessages, prev.currentRequestId, completedSteps)
    IN [prev EXCEPT
          !.messages = Append(updatedMessages, NewStreamingMessage(t, content)),
          !.currentStreamingMessageId = <<t, "_ai">>,
          !.processSteps = <<>>]

\* setChatState(prev => ...) of parsed.type === 'token'
TokenHandler(prev, content, t) ==
    IF prev.currentStreamingMessageId # NoId
    THEN AppendToken(prev, content)
    ELSE StartStreaming(prev, content, t)

\* setChatState(prev => ...) of parsed.type === 'tool_start'
ToolStartHandler(prev, tool_name, t) ==
    [prev EXCEPT !.messages =
        Append(@, [Message(<<t, "_tool">>, "tool", <<"running", tool_name>>)
                     EXCEPT !.tool_name = tool_name, !.status = "running"])]

\* The scan taken from the oldest entry: the first running tool entry of that name.
FirstRunningTool(msgs, tool_name) ==
    LET hits == {i \in DOMAIN msgs : msgs[i].type = "tool" /\ msgs[i].tool_name = tool_name
                                      /\ msgs[i].status = "running"}
    IN IF hits = {} THEN 0 ELSE CHOOSE i \in hits : \A j \in hits : i <= j

\* The scan without its test of the tool name: the last running tool entry.
LastRunningTool_AnyName(msgs, tool_name) ==
    LET hits == {i \in DOMAIN msgs : msgs[i].type = "tool" /\ msgs[i].status = "running"}
    IN IF hits = {} THEN 0 ELSE CHOOSE i \in hits : \A j \in hits : j <= i

\* The index of the last running tool entry of that name, 0 when there is none.
LastRunningTool(msgs, tool_name) ==
    LET hits == {i \in DOMAIN msgs : msgs[i].type = "tool" /\ msgs[i].tool_name = tool_name
                                      /\ msgs[i].status = "running"}
    IN IF hits = {} THEN 0 ELSE CHOOSE i \in hits : \A j \in hits : j <= i

SummaryLimit == 100
Ellipsis == <<".", ".", ".">>

\* outputSummary of a string tool_output ('' when it is absent or empty)
OutputSummary(tool_output) ==
    IF Len(tool_output) > SummaryLimit
    THEN SubSeq(tool_output, 1, SummaryLimit) \o Ellipsis
    ELSE tool_output

\* setChatState(prev => ...) of parsed.type === 'tool_end'
ToolEndHandler(prev, tool_name, tool_output) ==
    LET i == LastRunningTool(prev.messages, tool_name)
        outputSummary == OutputSummary(tool_output)
    IN IF i = 0 THEN prev
       ELSE [prev EXCEPT !.messages[i] =
                [@ EXCEPT !.content = <<"completed", tool_name>>,
                          !.output_summary = outputSummary,
                          !.status = "completed"]]

\* The map callback of finalMessages in the complete handler.
FinalizeMessage(msg, requestId, completedSteps, suggested_questions) ==
    IF msg.requestId = requestId /\ msg.type = "user"
    THEN [msg EXCEPT !.processSteps = completedSteps]
    ELSE IF msg.type = "ai" /\ msg.isStreaming
    THEN [msg EXCEPT !.isStreaming = FALSE, !.suggestedQuestions = suggested_questions]
    ELSE msg

\* setChatState(prev => ...) of parsed.type === 'complete'
CompleteHandler(prev, response, suggested_questions, t) ==
    LET filtered == SelectSeqNot(prev.messages, "system")
        hasAIMessage == \E i \in DOMAIN filtered : filtered[i].type = "ai"
        newMessages ==
            IF response # <<>> /\ prev.currentStreamingMessageId = NoId /\ ~hasAIMessage
            THEN Append(filtered, [Message(<<t, "_ai">>, "ai", response)
                                     EXCEPT !.suggestedQuestions = suggested_questions])
            ELSE filtered
        completedSteps == AllCompleted(prev.processSteps)
    IN [prev EXCEPT
          !.messages = [i \in DOMAIN newMessages |->
                          FinalizeMessage(newMessages[i], prev.currentRequestId,
                                          completedSteps, suggested_questions)],
          !.isLoading = FALSE,
          !.currentStreamingMessageId = NoId,
          !.processSteps = <<>>,
          !.currentRequestId = NoId]

\* The outer catch without its apology entry.
FailureHandler_NoEntry(prev, t) ==
    [prev EXCEPT
       !.isLoading = FALSE,
       !.currentStreamingMessageId = NoId,
       !.processSteps = <<>>,
       !.messages = SelectSeqNot(prev.messages, "system")]

\* The outer catch starting the history afresh with the apology.
FailureHandler_DropPartial(prev, t) ==
    [prev EXCEPT
       !.isLoading = FALSE,
       !.currentStreamingMessageId = NoId,
       !.processSteps = <<>>,
       !.messages = <<Message(<<t, "_error">>, "ai", ApologyText)>>]

\* setChatState(prev => ...) of the outer catch
FailureHandler(prev, t) ==
    [prev EXCEPT
       !.isLoading = FALSE,
       !.currentStreamingMessageId = NoId,
       !.processSteps = <<>>,
       !.messages = Append(SelectSeqNot(prev.messages, "system"),
                           Message(<<t, "_error">>, "ai", ApologyText))]

----------------------------------------------------------------------------
(* The frame reader and the event classifier *)

\* A JSON object on the wire: type, the companion field a, the list field b,
\* and x: "" or "error" (an error field) or a session id.
J(type, a, b, x) == <<type, a, b, x>>
IsJson(text) == Len(text) = 4

JType(parsed) == parsed[1]
JA(parsed) == parsed[2]
JB(parsed) == parsed[3]
JError(parsed) == parsed[4] = "error"
JSessionId(parsed) == IF parsed[4] = "error" THEN "" ELSE parsed[4]

\* line.startsWith('data: ')
StartsWithData(line) == line # <<>> /\ Head(line) = DataMarker

\* !data || data.trim() === ''
IsEmptyData(data) == \A i \in DOMAIN data : data[i] = BlankText

\* JSON.parse(data) succeeds: the data is one JSON object
ParseOk(data) == Len(data) = 1 /\ IsJson(data[1])

\* if (parsed.session_id) setChatState(prev => ({...prev, sessionId}))
UpdateSessionId(prev, parsed) ==
    IF JSessionId(parsed) # "" THEN [prev EXCEPT !.sessionId = JSessionId(parsed)] ELSE prev

\* The if / else-if chain without the two skips of generate_suggested_questions.
Dispatch_NoSkip(prev, parsed, t) ==
    LET type == JType(parsed)
    IN IF type = "step" THEN StepHandler(prev, JA(parsed))
       ELSE IF type = "step_complete" THEN StepCompleteHandler(prev, JA(parsed))
       ELSE IF type = "search_metadata" THEN SearchMetadataHandler(prev, JA(parsed))
       ELSE IF type = "generating_start" THEN prev
       ELSE IF type = "token" THEN TokenHandler(prev, <<JA(parsed)>>, t)
       ELSE IF type = "tool_start" THEN ToolStartHandler(prev, JA(parsed), t)
       ELSE IF type = "tool_end" THEN ToolEndHandler(prev, JA(parsed), JB(parsed))
       ELSE IF type = "complete"
       THEN CompleteHandler(prev, IF JA(parsed) = "" THEN <<>> ELSE <<JA(parsed)>>, JB(parsed), t)
       ELSE prev

\* The if / else-if chain over parsed.type.
Dispatch(prev, parsed, t) ==
    LET type == JType(parsed)
    IN IF type = "step"
       THEN IF JA(parsed) = "generate_suggested_questions" THEN prev
            ELSE StepHandler(prev, JA(parsed))
       ELSE IF type = "step_complete"
       THEN IF JA(parsed) = "generate_suggested_questions" THEN prev
            ELSE StepCompleteHandler(prev, JA(parsed))
       ELSE IF type = "search_metadata" THEN SearchMetadataHandler(prev, JA(parsed))
       ELSE IF type = "generating_start" THEN prev
       ELSE IF type = "token" THEN TokenHandler(prev, <<JA(parsed)>>, t)
       ELSE IF type = "tool_start" THEN ToolStartHandler(prev, JA(parsed), t)
       ELSE IF type = "tool_end" THEN ToolEndHandler(prev, JA(parsed), JB(parsed))
       ELSE IF type = "complete"
       THEN CompleteHandler(prev, IF JA(parsed) = "" THEN <<>> ELSE <<JA(parsed)>>, JB(parsed), t)
       ELSE prev

\* The inner try / catch with a parse failure escaping to the outer catch.
HandleData_ParseFatal(prev, data, t) ==
    IF IsEmptyData(data) THEN prev
    ELSE IF ~ParseOk(data) THEN FailureHandler(prev, t)
    ELSE IF JError(data[1]) THEN prev
    ELSE Dispatch(UpdateSessionId(prev, data[1]), data[1], t)

\* The inner try / catch over one data payload other than [DONE].
HandleData(prev, data, t) ==
    IF IsEmptyData(data) THEN prev
    ELSE IF ~ParseOk(data) THEN prev
    ELSE IF JError(data[1]) THEN prev
    ELSE Dispatch(UpdateSessionId(prev, data[1]), data[1], t)

\* setChatState(prev => ({ ...prev, isLoading: false }))
ClearLoading(prev) == [prev EXCEPT !.isLoading = FALSE]

----------------------------------------------------------------------------
(* Sending *)

\* The accepted send without its sessionId: sessionIdToSend update.
OpenTurn_NoSessionId(prev, query, sessionIdToSend, t) ==
    [prev EXCEPT
       !.messages = Append(@, [Message(<<t, "">>, "user", Trim(query))
                                 EXCEPT !.processSteps = getProcessSteps,
                                        !.requestId = <<t, "">>]),
       !.isLoading = TRUE,
       !.currentStreamingMessageId = NoId,
       !.processSteps = getProcessSteps,
       !.currentRequestId = <<t, "">>,
       !.workflowType = NoWorkflow]

\* The accepted send without its reset of workflowType.
OpenTurn_KeepWorkflow(prev, query, sessionIdToSend, t) ==
    [prev EXCEPT
       !.messages = Append(@, [Message(<<t, "">>, "user", Trim(query))
                                 EXCEPT !.processSteps = getProcessSteps,
                                        !.requestId = <<t, "">>]),
       !.isLoading = TRUE,
       !.sessionId = sessionIdToSend,
       !.currentStreamingMessageId = NoId,
       !.processSteps = getProcessSteps,
       !.currentRequestId = <<t, "">>]

\* setChatState(prev => ...) of an accepted send
OpenTurn(prev, query, sessionIdToSend, t) ==
    [prev EXCEPT
       !.messages = Append(@, [Message(<<t, "">>, "user", Trim(query))
                                 EXCEPT !.processSteps = getProcessSteps,
                                        !.requestId = <<t, "">>]),
       !.isLoading = TRUE,
       !.sessionId = sessionIdToSend,
       !.currentStreamingMessageId = NoId,
       !.processSteps = getProcessSteps,
       !.currentRequestId = <<t, "">>,
       !.workflowType = NoWorkflow]

\* The guard without its isLoading test.
SendRejected_NoLoadingTest(state, query) == Trim(query) = <<>>

\* if (!query.trim() || chatState.isLoading) return;
SendRejected(state, query) == Trim(query) = <<>> \/ state.isLoading

\* if (chatState.isLoading) return;   (sendExampleMessage)
ExampleRejected(state) == state.isLoading

NewStream(query, sessionIdToSend) ==
    [ pc |-> "fetch", buffer |-> <<>>, lines |-> <<>>, nread |-> 0,
      session_id |-> sessionIdToSend,
      hist |-> <<>>,       \* history: the payloads handled, as far as kept
      ended |-> FALSE ]    \* history: a complete event or [DONE] was handled

\* No invocation is inside the for loop of a chunk.
Idle == \A s \in DOMAIN streams : streams[s].pc # "lines"

RECURSIVE TotalRead(_)
TotalRead(ss) == IF ss = <<>> THEN 0 ELSE Head(ss).nread + TotalRead(Tail(ss))

Queries == { <<>>, <<" ">>, <<"q">>, <<" ", "q">> }

Init ==
    /\ chatState = [ messages |-> <<>>, isLoading |-> FALSE, sessionId |-> NoSession,
                     currentStreamingMessageId |-> NoId, processSteps |-> <<>>,
                     currentRequestId |-> NoId, workflowType |-> NoWorkflow ]
    /\ streams = <<>>
    /\ now = 0
    /\ ev = <<"init">>

\* What a call of sendMessageWithQuery(query) leaves behind: the state, the
\* invocations and the clock (its Date.now() reads a later time than any before).
SendOutcome(prev, invocations, t, query) ==
    IF SendRejected(prev, query)
    THEN [chatState |-> prev, streams |-> invocations, now |-> t]
    ELSE LET sessionIdToSend == IF prev.sessionId # NoSession THEN prev.sessionId ELSE RandomUUID
         IN [ chatState |-> OpenTurn(prev, query, sessionIdToSend, t + 1),
              streams |-> Append(invocations, NewStream(query, sessionIdToSend)),
              now |-> t + 1 ]

\* What a call of sendExampleMessage(exampleQuery) leaves behind.
ExampleOutcome(prev, invocations, t, exampleQuery) ==
    IF ExampleRejected(prev)
    THEN [chatState |-> prev, streams |-> invocations, now |-> t]
    ELSE SendOutcome(prev, invocations, t, exampleQuery)

\* A call changes ev only when it opens a turn: a call that returns at its
\* guard leaves no trace at all.
Call(name, outcome, maxTurns) ==
    /\ Idle
    /\ Len(outcome.streams) <= maxTurns
    /\ outcome.now <= MaxTime
    /\ chatState' = outcome.chatState
    /\ streams' = outcome.streams
    /\ now' = outcome.now
    /\ ev' = IF outcome.streams = streams THEN ev ELSE <<name>>

sendMessageWithQuery(query, maxTurns) ==
    Call("sendMessageWithQuery", SendOutcome(chatState, streams, now, query), maxTurns)

sendExampleMessage(exampleQuery, maxTurns) ==
    Call("sendExampleMessage", ExampleOutcome(chatState, streams, now, exampleQuery), maxTurns)

----------------------------------------------------------------------------
(* The invocation of sendMessageWithQuery after the send: fetch, read loop *)

\* await fetch(...) resolves with an ok response that has a body reader
FetchOk(s) ==
    /\ Idle
    /\ streams[s].pc = "fetch"
    /\ streams' = [streams EXCEPT ![s].pc = "read"]
    /\ ev' = <<"fetch", s, "ok">>
    /\ UNCHANGED <<chatState, now>>

\* fetch rejects, or !response.ok, or no reader: the outer catch
FetchFail(s) ==
    /\ Idle
    /\ streams[s].pc = "fetch"
    /\ chatState' = FailureHandler(chatState, now)
    /\ streams' = [streams EXCEPT ![s].pc = "returned"]
    /\ ev' = <<"fetch", s, "failed">>
    /\ UNCHANGED now

\* await reader.read() yields a chunk: buffer += chunk; split; pop
ReadChunk(s, chunk, tick, maxChunks) ==
    /\ Idle
    /\ streams[s].pc = "read"
    /\ TotalRead(streams) < maxChunks
    /\ now + tick <= MaxTime
    /\ now' = now + tick
    /\ LET text == streams[s].buffer \o chunk
           split == SplitNL(text)
       IN streams' = [streams EXCEPT ![s].pc = "lines",
                                      ![s].buffer = split[Len(split)],
                                      ![s].lines = SubSeq(split, 1, Len(split) - 1),
                                      ![s].nread = @ + 1]
    /\ ev' = <<"chunk", s>>
    /\ UNCHANGED chatState

\* The data is a complete event that reaches its handler.
IsCompleteEvent(data) ==
    ParseOk(data) /\ ~JError(data[1]) /\ JType(data[1]) = "complete"

\* hist: the payloads of `keep` this invocation has handled, in order.
Record(hist, data, keep) ==
    IF Len(data) = 1 /\ data[1] \in keep THEN Append(hist, data[1]) ELSE hist

\* One iteration of for (const line of lines).
ProcessLine(s, keep) ==
    /\ streams[s].pc = "lines"
    /\ streams[s].lines # <<>>
    /\ LET line == Head(streams[s].lines)
           data == Tail(line)
       IN IF ~StartsWithData(line)
          THEN /\ streams' = [streams EXCEPT ![s].lines = Tail(@)]
               /\ ev' = <<"skipped", s>>
               /\ UNCHANGED chatState
          ELSE IF data = <<DoneText>>
          THEN /\ chatState' = ClearLoading(chatState)
               /\ streams' = [streams EXCEPT ![s].lines = <<>>,
                                              ![s].hist = Record(@, data, keep),
                                              ![s].ended = TRUE]
               /\ ev' = <<"data", s, data>>
          ELSE /\ chatState' = HandleData(chatState, data, now)
               /\ streams' = [streams EXCEPT ![s].lines = Tail(@),
                                              ![s].hist = Record(@, data, keep),
                                              ![s].ended = @ \/ IsCompleteEvent(data)]
               /\ ev' = <<"data", s, data>>
    /\ UNCHANGED now

\* After the for loop of a chunk: "Handle stream completion".
EndOfChunk(s) ==
    /\ streams[s].pc = "lines"
    /\ streams[s].lines = <<>>
    /\ chatState' = ClearLoading(chatState)
    /\ streams' = [streams EXCEPT ![s].pc = "read"]
    /\ ev' = <<"endOfChunk", s>>
    /\ UNCHANGED now

\* reader.read() yields done: break out of while (true); the function returns
ReadDone(s) ==
    /\ Idle
    /\ streams[s].pc = "read"
    /\ streams' = [streams EXCEPT ![s].pc = "returned"]
    /\ ev' = <<"read", s, "done">>
    /\ UNCHANGED <<chatState, now>>

\* reader.read() rejects (network error, abort): the outer catch
ReadFail(s) ==
    /\ Idle
    /\ streams[s].pc = "read"
    /\ chatState' = FailureHandler(chatState, now)
    /\ streams' = [streams EXCEPT ![s].pc = "returned"]
    /\ ev' = <<"read", s, "failed">>
    /\ UNCHANGED now

----------------------------------------------------------------------------
(* What the server and the network may deliver *)

DataLine(payload) == <<DataMarker, payload, NL>>

RECURSIVE LineChunks(_, _)
\* The chunks made of 1..k complete data lines with payloads from P.
LineChunks(P, k) ==
    IF k = 0 THEN {}
    ELSE {DataLine(p) : p \in P}
         \cup {c \o DataLine(p) : c \in LineChunks(P, k - 1), p \in P}

\* Payload texts
Step(stepId) == J("step", stepId, <<>>, "")
StepComplete(stepId) == J("step_complete", stepId, <<>>, "")
Token(content) == J("token", content, <<>>, "")
Complete(response, questions) == J("complete", response, questions, "")

----------------------------------------------------------------------------
(* The general specification: any sends, two turns, chunks of one or two lines *)

Payloads == { Token("A"), Complete("R", <<"Q1">>), DoneText }
SpecChunks == LineChunks(Payloads, MaxChunkLines)

Next ==
    \/ \E q \in Queries : sendMessageWithQuery(q, MaxTurns)
    \/ \E q \in Queries : sendExampleMessage(q, MaxTurns)
    \/ \E s \in DOMAIN streams : FetchOk(s)
    \/ \E s \in DOMAIN streams : FetchFail(s)
    \/ \E s \in DOMAIN streams : \E c \in SpecChunks : \E d \in {0, 1} : ReadChunk(s, c, d, MaxChunks)
    \/ \E s \in DOMAIN streams : ProcessLine(s, {})
    \/ \E s \in DOMAIN streams : EndOfChunk(s)
    \/ \E s \in DOMAIN streams : ReadDone(s)
    \/ \E s \in DOMAIN streams : ReadFail(s)

Spec == Init /\ [][Next]_vars

----------------------------------------------------------------------------
(* Turn exclusivity *)

\* The invocations whose turn has not ended: the stream has neither delivered
\* complete or [DONE], nor failed, nor reached end-of-transport.
OpenInvocations == {s \in DOMAIN streams : streams[s].pc # "returned" /\ ~streams[s].ended}

\* C1: from an accepted send until its stream delivers complete, [DONE], a
\* failure or end-of-transport, isLoading stays true, so that no two
\* response streams are being consumed at the same time.
C1_LoadingUntilTurnEnds ==
    /\ OpenInvocations # {} => chatState.isLoading
    /\ Cardinality(OpenInvocations) <= 1

Here == [chatState |-> chatState, streams |-> streams, now |-> now]

\* C2: a call of sendMessageWithQuery or sendExampleMessage made while
\* isLoading is true changes no field of the state and opens no stream.
C2_RejectedSendNoEffect ==
    chatState.isLoading =>
        \A q \in Queries :
            /\ SendOutcome(chatState, streams, now, q) = Here
            /\ ExampleOutcome(chatState, streams, now, q) = Here

\* A turn is open, its stream is being read, and a send with a non-blank
\* query has returned without a trace.
C2_Witness ==
    /\ chatState.isLoading
    /\ \E s \in DOMAIN streams : streams[s].pc = "read" /\ streams[s].nread > 0
    /\ \E q \in Queries : Trim(q) # <<>> /\ SendOutcome(chatState, streams, now, q) = Here

----------------------------------------------------------------------------
(* The streaming flag *)

StreamingEntries == {i \in DOMAIN chatState.messages : chatState.messages[i].isStreaming}

\* C10: at most one entry of messages has metadata.isStreaming = true.
C10_AtMostOneStreaming == Cardinality(StreamingEntries) <= 1

----------------------------------------------------------------------------
(* The progress model: one line per chunk *)

StepPayloads ==
    { Step("start"), Step("analyze_query"), Step("optimize_search_query"),
      Step("search_products"), Step("filter_product_links"),
      Step("generate_final_response"), Step("handle_general_query"),
      Step("search_completed"), Step("extracting_product_details"),
      Step("completed"), Step("generate_suggested_questions"),
      StepComplete("search_products"), Token("A"), Complete("R", <<"Q1">>) }
StepChunks == LineChunks(StepPayloads, 1)

NextSteps ==
    \/ sendMessageWithQuery(<<"q">>, MaxTurns)
    \/ \E s \in DOMAIN streams : FetchOk(s)
    \/ \E s \in DOMAIN streams : FetchFail(s)
    \/ \E s \in DOMAIN streams : \E c \in StepChunks : ReadChunk(s, c, 0, MaxChunks)
    \/ \E s \in DOMAIN streams : ProcessLine(s, {Step("handle_general_query")})
    \/ \E s \in DOMAIN streams : EndOfChunk(s)
    \/ \E s \in DOMAIN streams : ReadDone(s)
    \/ \E s \in DOMAIN streams : ReadFail(s)

SpecSteps == Init /\ [][NextSteps]_vars

----------------------------------------------------------------------------
(* Stage statuses *)

Messages == chatState.messages

\* The user entries of the open turn: those the step handlers write to.
TurnEntries ==
    {i \in DOMAIN Messages :
        Messages[i].type = "user" /\ Messages[i].requestId = chatState.currentRequestId}

Running(steps) == {k \in DOMAIN steps : steps[k].status = "running"}

\* The state the fast-forward leaves: the eight stages, the first seven
\* completed and generate_final_response running.
FastForwarded(steps) ==
    /\ Len(steps) = Len(StepIds)
    /\ \A k \in DOMAIN steps :
          /\ steps[k].id = StepIds[k]
          /\ steps[k].status =
                IF steps[k].id = "generate_final_response" THEN "running" ELSE "completed"

\* The last step handled the data line `payload` of invocation s.
Handled(s, payload) == ev = <<"data", s, <<payload>>>>

\* The step about to be taken handles a step event.
HandlesStepEvent ==
    /\ ev'[1] = "data"
    /\ ParseOk(ev'[3])
    /\ ~JError(ev'[3][1])
    /\ JType(ev'[3][1]) = "step"

StatusRank(status) == IF status = "pending" THEN 0 ELSE IF status = "running" THEN 1 ELSE 2

\* Some stage of some entry has a lower status after the step than before.
SomeStageLowered ==
    \E i \in DOMAIN Messages \cap DOMAIN chatState'.messages :
        \E k \in DOMAIN Messages[i].processSteps \cap DOMAIN chatState'.messages[i].processSteps :
            StatusRank(chatState'.messages[i].processSteps[k].status)
                < StatusRank(Messages[i].processSteps[k].status)

\* C3: at most one stage of a turn has status running.
C3_AtMostOneRunning ==
    /\ Cardinality(Running(chatState.processSteps)) <= 1
    /\ \A i \in DOMAIN Messages : Cardinality(Running(Messages[i].processSteps)) <= 1

\* C4: once a step event has set workflowType to general or search, no later
\* event of the turn changes it, and after the fast-forward the stages stay
\* fast-forwarded whatever step event arrives.
C4_WorkflowSticky ==
    [][ /\ (/\ chatState.workflowType \in {"general", "search"}
            /\ chatState'.currentRequestId = chatState.currentRequestId)
           => chatState'.workflowType = chatState.workflowType
        /\ (/\ chatState.workflowType = "general"
            /\ HandlesStepEvent
            /\ \A i \in TurnEntries : FastForwarded(Messages[i].processSteps))
           => \A i \in TurnEntries : FastForwarded(chatState'.messages[i].processSteps)
      ]_vars

\* C5: right after the first step event handle_general_query of an open
\* turn, the first seven stages are completed, generate_final_response is
\* running and workflowType is general.
C5_FastForward ==
    \A s \in DOMAIN streams :
        (/\ Handled(s, Step("handle_general_query"))
         /\ streams[s].hist = <<Step("handle_general_query")>>
         /\ chatState.currentRequestId # NoId)
        => /\ chatState.workflowType = "general"
           /\ TurnEntries # {}
           /\ \A i \in TurnEntries : FastForwarded(Messages[i].processSteps)

\* C6: no stage ever moves from completed back to pending or running, or
\* from running back to pending.
C6_StatusMonotonic == [][~SomeStageLowered]_vars

----------------------------------------------------------------------------
(* Step events in canonical order, one turn *)

RankPayloads == {Step(StepIds[k]) : k \in DOMAIN StepIds}
RankChunks == LineChunks(RankPayloads, 1)

\* The canonical rank of the stage a step payload names.
RankOf(payload) == IndexOf(StepIds, JA(payload))

\* The chunk carries a step event ranked above every one handled so far.
RanksAbove(hist, chunk) == \A k \in DOMAIN hist : RankOf(hist[k]) < RankOf(chunk[2])

NextRank ==
    \/ sendMessageWithQuery(<<"q">>, 1)
    \/ \E s \in DOMAIN streams : FetchOk(s)
    \/ \E s \in DOMAIN streams : FetchFail(s)
    \/ \E s \in DOMAIN streams : \E c \in RankChunks :
          RanksAbove(streams[s].hist, c) /\ ReadChunk(s, c, 0, Len(StepIds))
    \/ \E s \in DOMAIN streams : ProcessLine(s, RankPayloads)
    \/ \E s \in DOMAIN streams : EndOfChunk(s)
    \/ \E s \in DOMAIN streams : ReadDone(s)
    \/ \E s \in DOMAIN streams : ReadFail(s)

SpecRank == Init /\ [][NextRank]_vars

\* Some stage of some entry is completed before the step and not after it.
SomeStageUncompleted ==
    \E i \in DOMAIN Messages \cap DOMAIN chatState'.messages :
        \E k \in DOMAIN Messages[i].processSteps :
            /\ Messages[i].processSteps[k].status = "completed"
            /\ \/ k \notin DOMAIN chatState'.messages[i].processSteps
               \/ chatState'.messages[i].processSteps[k].status # "completed"

\* C7: while step events of strictly increasing canonical rank are applied
\* to a freshly opened turn, at most one stage is running after each event
\* and a stage that has become completed remains completed.
C7_IncreasingRank ==
    /\ [](\A i \in DOMAIN Messages : Cardinality(Running(Messages[i].processSteps)) <= 1)
    /\ [][~SomeStageUncompleted]_vars

\* Three step events of increasing rank have been handled, the last one
\* search_products: the stages below it are completed and it alone runs.
C7_Witness ==
    \E s \in DOMAIN streams :
        /\ Len(streams[s].hist) = 3
        /\ Handled(s, Step("search_products"))
        /\ \E i \in TurnEntries :
              /\ Running(Messages[i].processSteps) = {4}
              /\ \A k \in 1..3 : Messages[i].processSteps[k].status = "completed"

----------------------------------------------------------------------------
(* The token model: token and complete events, two turns *)

TokenPayloads == { Token("A"), Token("B") }
TokenChunks == LineChunks(TokenPayloads \cup {Complete("R", <<"Q1">>)}, 1)

NextTokens ==
    \/ sendMessageWithQuery(<<"q">>, MaxTurns)
    \/ \E s \in DOMAIN streams : FetchOk(s)
    \/ \E s \in DOMAIN streams : FetchFail(s)
    \/ \E s \in DOMAIN streams : \E c \in TokenChunks : \E d \in {0, 1} : ReadChunk(s, c, d, MaxChunks)
    \/ \E s \in DOMAIN streams : ProcessLine(s, TokenPayloads)
    \/ \E s \in DOMAIN streams : EndOfChunk(s)
    \/ \E s \in DOMAIN streams : ReadDone(s)
    \/ \E s \in DOMAIN streams : ReadFail(s)

SpecTokens == Init /\ [][NextTokens]_vars

RECURSIVE Concat(_)
\* The contents of the token payloads, joined in order.
Concat(tokens) == IF tokens = <<>> THEN <<>> ELSE <<JA(Head(tokens))>> \o Concat(Tail(tokens))

\* C8: at any point of a turn, the streamed assistant entry of the turn holds
\* the concatenation, in arrival order, of the tokens received so far.
C8_TokenOrdering ==
    \A s \in OpenInvocations :
        streams[s].hist # <<>> =>
            \E i \in DOMAIN Messages :
                /\ Messages[i].type = "ai"
                /\ Messages[i].isStreaming
                /\ Messages[i].content = Concat(streams[s].hist)

\* The entries of the turn opened by the user entry at index u: those up to
\* the next user entry.
TurnOf(u) ==
    {i \in DOMAIN Messages :
        /\ i > u
        /\ \A j \in (u + 1)..i : Messages[j].type # "user"}

\* The assistant entry at index i holds tokens.
HoldsTokens(i) ==
    /\ Messages[i].type = "ai"
    /\ Messages[i].content # <<>>
    /\ \A k \in DOMAIN Messages[i].content :
          Messages[i].content[k] \in {JA(p) : p \in TokenPayloads}

\* C9: all tokens of a turn are in one and the same assistant entry, wherever
\* they fall among the events of the turn.
C9_OneAssistantEntry ==
    \A u \in DOMAIN Messages :
        Messages[u].type = "user" => Cardinality({i \in TurnOf(u) : HoldsTokens(i)}) <= 1

----------------------------------------------------------------------------
(* The frame model: well-formed, malformed and terminal frames, one turn *)

ToolStart(tool_name) == J("tool_start", tool_name, <<>>, "")
ToolEnd(tool_name, tool_output) == J("tool_end", tool_name, tool_output, "")

\* A well-formed token frame that also carries an error field.
ErrorFrame == J("token", "X", <<>>, "error")
\* JSON objects whose type is none of the recognised ones, without and with
\* a session_id field.
UnknownType == J("unknown_type", "", <<>>, "")
UnknownWithSession == J("unknown_type", "", <<>>, "s2")

FramePayloads ==
    { Step("start"), Token("hi"), ToolStart("t1"), Complete("R", <<"Q1">>), DoneText,
      GarbageText, ErrorFrame, UnknownType, UnknownWithSession }
FrameChunks == LineChunks(FramePayloads, MaxChunkLines)

\* The frames that end a turn, kept in hist.
Terminals == { Complete("R", <<"Q1">>), DoneText }

NextFrames ==
    \/ sendMessageWithQuery(<<"q">>, 1)
    \/ \E s \in DOMAIN streams : FetchOk(s)
    \/ \E s \in DOMAIN streams : FetchFail(s)
    \/ \E s \in DOMAIN streams : \E c \in FrameChunks : ReadChunk(s, c, 0, MaxChunks)
    \/ \E s \in DOMAIN streams : ProcessLine(s, Terminals)
    \/ \E s \in DOMAIN streams : EndOfChunk(s)
    \/ \E s \in DOMAIN streams : ReadDone(s)
    \/ \E s \in DOMAIN streams : ReadFail(s)

SpecFrames == Init /\ [][NextFrames]_vars

\* The step about to be taken is the for loop of invocation s handling the
\* data line `payload`.
Handles(s, payload) ==
    /\ streams[s].pc = "lines"
    /\ ev' = <<"data", s, <<payload>>>>

\* C11: a well-formed frame carrying an error field ends the turn exactly as
\* a transport failure does: one apology entry, isLoading and
\* currentStreamingMessageId cleared, and no later frame of the stream applied.
C11_ErrorFieldFatal ==
    [][\A s \in DOMAIN streams :
          Handles(s, ErrorFrame) =>
              /\ chatState' = FailureHandler(chatState, now)
              /\ streams'[s].pc = "returned"]_vars

\* The frames that are not JSON or are JSON without a recognised type.
MalformedPayloads == { GarbageText, UnknownType, UnknownWithSession }

\* The for loop goes on to the next line of the chunk.
Continues(s) ==
    /\ streams'[s].pc = "lines"
    /\ streams'[s].lines = Tail(streams[s].lines)

\* C12 as stated: a frame that is not JSON, or JSON without a recognised
\* type, leaves the session state unchanged and does not stop processing.
C12_MalformedNoEffect ==
    [][\A s \in DOMAIN streams : \A p \in MalformedPayloads :
          Handles(s, p) => chatState' = chatState /\ Continues(s)]_vars

\* C12 as amended: such a frame does not stop processing and leaves the
\* session state unchanged but for sessionId, which a JSON frame of
\* unrecognised type still replaces by its session_id field.
C12_MalformedOnlySessionId ==
    [][\A s \in DOMAIN streams : \A p \in MalformedPayloads :
          Handles(s, p) =>
              /\ Continues(s)
              /\ [chatState' EXCEPT !.sessionId = chatState.sessionId] = chatState
              /\ chatState'.sessionId # chatState.sessionId =>
                    IsJson(p) /\ chatState'.sessionId = JSessionId(p)]_vars

\* A garbage line was handled and nothing changed: the turn is still open
\* with its user entry alone, and the next line of the same chunk, a token,
\* is waiting to be handled.
C12_Witness ==
    \E s \in DOMAIN streams :
        /\ Handled(s, GarbageText)
        /\ streams[s].pc = "lines"
        /\ streams[s].lines = << <<DataMarker, Token("hi")>> >>
        /\ Len(Messages) = 1
        /\ chatState.isLoading

\* hist holds the payload.
Seen(s, payload) == \E k \in DOMAIN streams[s].hist : streams[s].hist[k] = payload

\* Frames whose handlers write to the state.
AppliedPayloads == { Step("start"), Token("hi"), ToolStart("t1") }

\* C18: once a [DONE] frame of a response has been read, no later frame of
\* that response is handled, in the same chunk or in a later one.
C18_DoneTerminates ==
    [][\A s \in DOMAIN streams :
          Seen(s, DoneText) => \A p \in AppliedPayloads : ~Handles(s, p)]_vars

\* C20: after a complete event has been applied, no later frame of the same
\* response changes the session state.
C20_ClosedTurnImmutable ==
    [][\A s \in DOMAIN streams :
          (/\ Seen(s, Complete("R", <<"Q1">>))
           /\ \E p \in AppliedPayloads : Handles(s, p))
          => chatState' = chatState]_vars

----------------------------------------------------------------------------
(* Transport failure *)

\* The step about to be taken is the outer catch of invocation s: its fetch
\* or one of its reads has failed.
Fails(s) ==
    /\ streams[s].pc \in {"fetch", "read"}
    /\ ev' \in { <<"fetch", s, "failed">>, <<"read", s, "failed">> }

\* C13: a transport failure appends exactly one assistant entry with the
\* apology text, clears isLoading and currentStreamingMessageId, and leaves
\* every entry that was there unchanged.
C13_TransportFailure ==
    [][\A s \in DOMAIN streams :
          Fails(s) =>
              /\ Len(chatState'.messages) = Len(Messages) + 1
              /\ SubSeq(chatState'.messages, 1, Len(Messages)) = Messages
              /\ chatState'.messages[Len(Messages) + 1].type = "ai"
              /\ chatState'.messages[Len(Messages) + 1].content = ApologyText
              /\ ~chatState'.isLoading
              /\ chatState'.currentStreamingMessageId = NoId]_vars

\* A read of the second turn has failed after a chunk of it was handled: the
\* apology entry follows the entries of both turns.
C13_Witness ==
    /\ Len(streams) = 2
    /\ ev = <<"read", 2, "failed">>
    /\ streams[2].nread > 0
    /\ Len(Messages) >= 4
    /\ Messages[Len(Messages)].content = ApologyText
    /\ \E i \in DOMAIN Messages : HoldsTokens(i)

----------------------------------------------------------------------------
(* The tool model: tool_start and tool_end events of two tools, one turn *)

MaxToolEvents == 4

ToolNames == { "t1", "t2" }
ToolPayloads ==
    {ToolStart(n) : n \in ToolNames} \cup {ToolEnd(n, <<"o">>) : n \in ToolNames}
ToolChunks == LineChunks(ToolPayloads, 1)

NextTools ==
    \/ sendMessageWithQuery(<<"q">>, 1)
    \/ \E s \in DOMAIN streams : FetchOk(s)
    \/ \E s \in DOMAIN streams : FetchFail(s)
    \/ \E s \in DOMAIN streams : \E c \in ToolChunks : ReadChunk(s, c, 0, MaxToolEvents)
    \/ \E s \in DOMAIN streams : ProcessLine(s, {})
    \/ \E s \in DOMAIN streams : EndOfChunk(s)
    \/ \E s \in DOMAIN streams : ReadDone(s)
    \/ \E s \in DOMAIN streams : ReadFail(s)

SpecTools == Init /\ [][NextTools]_vars

\* The running tool entries of that name.
RunningTools(tool_name) ==
    {i \in DOMAIN Messages :
        /\ Messages[i].type = "tool"
        /\ Messages[i].tool_name = tool_name
        /\ Messages[i].status = "running"}

\* C14: a tool_end event changes exactly one entry, the highest-index running
\* tool entry of its tool_name, which becomes completed; every other entry is
\* unchanged (and nothing changes when no entry matches).
C14_ToolMatchingLifo ==
    [][\A s \in DOMAIN streams : \A n \in ToolNames :
          Handles(s, ToolEnd(n, <<"o">>)) =>
              /\ Len(chatState'.messages) = Len(Messages)
              /\ [chatState' EXCEPT !.messages = Messages] = chatState
              /\ \A i \in DOMAIN Messages :
                    IF i \in RunningTools(n) /\ \A j \in RunningTools(n) : j <= i
                    THEN /\ chatState'.messages[i].status = "completed"
                         /\ chatState'.messages[i].tool_name = n
                    ELSE chatState'.messages[i] = Messages[i]]_vars

\* start, start, end of one tool: the first entry is still running and the
\* second is completed.
C14_Witness ==
    \E s \in DOMAIN streams :
        /\ Handled(s, ToolEnd("t1", <<"o">>))
        /\ \E i, j \in DOMAIN Messages :
              /\ i < j
              /\ Messages[i].tool_name = "t1" /\ Messages[i].status = "running"
              /\ Messages[j].tool_name = "t1" /\ Messages[j].status = "completed"

----------------------------------------------------------------------------
(* The complete event over several turns *)

\* The user entry of the latest turn (0 before the first send).
LastUser ==
    LET users == {i \in DOMAIN Messages : Messages[i].type = "user"}
    IN IF users = {} THEN 0 ELSE CHOOSE i \in users : \A j \in users : j <= i

\* The step about to be taken handles the complete event of the latest turn.
HandlesComplete ==
    /\ streams # <<>>
    /\ Handles(Len(streams), Complete("R", <<"Q1">>))

\* C15: in every turn, when a complete event with a response arrives and the
\* turn has no assistant entry yet, complete appends one assistant entry
\* whose content is the response.
C15_CompleteFallback ==
    [][(/\ HandlesComplete
        /\ \A i \in TurnOf(LastUser) : Messages[i].type # "ai")
       => /\ Len(chatState'.messages) = Len(Messages) + 1
          /\ chatState'.messages[Len(Messages) + 1].type = "ai"
          /\ chatState'.messages[Len(Messages) + 1].content = <<"R">>]_vars

\* C16: a complete event never changes the suggestedQuestions or the content
\* of an assistant entry that belongs to an earlier turn.
C16_EarlierTurnsUntouched ==
    [][HandlesComplete =>
          \A i \in DOMAIN Messages :
              (i < LastUser /\ Messages[i].type = "ai") =>
                  /\ chatState'.messages[i].suggestedQuestions = Messages[i].suggestedQuestions
                  /\ chatState'.messages[i].content = Messages[i].content]_vars

----------------------------------------------------------------------------
(* The end-to-end scenario: each response is the same script, one line per chunk *)

EndToEndScript ==
    << DataLine(Step("start")), DataLine(Step("analyze_query")),
       DataLine(Step("optimize_search_query")), DataLine(Step("search_completed")),
       DataLine(Token("A")), DataLine(Token("B")), DataLine(Complete("R", <<"Q1">>)) >>

\* The chunk is the next one of the script for invocation s.
NextOf(script, s, chunk) ==
    /\ streams[s].nread < Len(script)
    /\ chunk = script[streams[s].nread + 1]

NextEndToEnd ==
    \/ sendMessageWithQuery(<<"q">>, MaxTurns)
    \/ \E s \in DOMAIN streams : FetchOk(s)
    \/ \E s \in DOMAIN streams : FetchFail(s)
    \/ \E s \in DOMAIN streams : \E c \in {EndToEndScript[k] : k \in DOMAIN EndToEndScript} :
          NextOf(EndToEndScript, s, c) /\ ReadChunk(s, c, 0, MaxTurns * Len(EndToEndScript))
    \/ \E s \in DOMAIN streams : ProcessLine(s, {})
    \/ \E s \in DOMAIN streams : EndOfChunk(s)
    \/ \E s \in DOMAIN streams : ReadDone(s)
    \/ \E s \in DOMAIN streams : ReadFail(s)

SpecEndToEnd == Init /\ [][NextEndToEnd]_vars

\* C17: when the only turn has received start, analyze_query,
\* optimize_search_query, search_completed, two tokens and complete, it has
\* one assistant entry holding the tokens and the suggested questions,
\* isLoading is false and its user entry lists the eight stages, all completed.
C17_EndToEnd ==
    (/\ Len(streams) = 1
     /\ streams[1].nread = Len(EndToEndScript)
     /\ Handled(1, Complete("R", <<"Q1">>)))
    => /\ ~chatState.isLoading
       /\ \E a \in DOMAIN Messages :
             /\ {i \in DOMAIN Messages : Messages[i].type = "ai"} = {a}
             /\ Messages[a].content = <<"A", "B">>
             /\ Messages[a].suggestedQuestions = <<"Q1">>
       /\ Len(Messages[1].processSteps) = Len(StepIds)
       /\ \A k \in DOMAIN Messages[1].processSteps :
             /\ Messages[1].processSteps[k].id = StepIds[k]
             /\ Messages[1].processSteps[k].status = "completed"

----------------------------------------------------------------------------
(* The split model: each turn receives the same response text, split its own way *)

ResponseText == DataLine(Token("A")) \o DataLine(DoneText) \o DataLine(Token("B"))

RECURSIVE Cut(_, _)
\* The text in chunks of n symbols, the last one shorter if need be.
Cut(text, n) ==
    IF Len(text) <= n THEN <<text>>
    ELSE <<SubSeq(text, 1, n)>> \o Cut(SubSeq(text, n + 1, Len(text)), n)

\* The splits of the turns: the whole text at once, one line per chunk, and
\* chunks that end in the middle of a line.
Splits == << <<ResponseText>>, Cut(ResponseText, Len(DataLine(DoneText))), Cut(ResponseText, 2) >>

NextSplit ==
    \/ sendMessageWithQuery(<<"q">>, Len(Splits))
    \/ \E s \in DOMAIN streams : FetchOk(s)
    \/ \E s \in DOMAIN streams : FetchFail(s)
    \/ \E s \in DOMAIN streams : \E c \in {Splits[s][k] : k \in DOMAIN Splits[s]} :
          NextOf(Splits[s], s, c) /\ ReadChunk(s, c, 0, Len(Splits) * Len(ResponseText))
    \/ \E s \in DOMAIN streams : ProcessLine(s, {})
    \/ \E s \in DOMAIN streams : EndOfChunk(s)
    \/ \E s \in DOMAIN streams : ReadDone(s)
    \/ \E s \in DOMAIN streams : ReadFail(s)

SpecSplit == Init /\ [][NextSplit]_vars

\* The user entry of the turn of invocation s.
UserOf(s) ==
    CHOOSE u \in DOMAIN Messages :
        /\ Messages[u].type = "user"
        /\ Cardinality({j \in 1..u : Messages[j].type = "user"}) = s

\* What the turn of invocation s shows: the stages of its user entry and the
\* type and content of the entries that follow it.
TurnView(s) ==
    [ stages |-> Messages[UserOf(s)].processSteps,
      entries |-> {<<i - UserOf(s), Messages[i].type, Messages[i].content>> : i \in TurnOf(UserOf(s))} ]

\* The whole response text of invocation s has been read and handled, and
\* its transport has ended.
Delivered(s) ==
    /\ streams[s].nread = Len(Splits[s])
    /\ streams[s].pc = "returned"
    /\ ev # <<"read", s, "failed">>

\* C19: two turns that received the same response text in different splits
\* end with the same entries and the same stage statuses.
C19_SplitIndependent ==
    \A s1, s2 \in DOMAIN streams :
        (/\ Delivered(s1) /\ Delivered(s2)
         /\ \A s \in DOMAIN streams : streams[s].pc = "returned")
        => TurnView(s1) = TurnView(s2)

----------------------------------------------------------------------------
(* Stage events: unknown ids, routing, failure *)

\* C21: a step event whose stage id is not a recognised one (current_step =
\* completed) changes no stage status and no other field of the state.
C21_UnknownStageIgnored ==
    [][\A s \in DOMAIN streams :
          Handles(s, Step("completed")) => chatState' = chatState]_vars

\* The step and step_complete payloads of the progress model.
StageEvents == {p \in StepPayloads : JType(p) \in {"step", "step_complete"}}

\* C22: a step or step_complete event changes the stages and the search
\* metadata of no user entry other than that of the turn whose stream it
\* arrived on.
C22_RoutedToOwnTurn ==
    [][\A s \in DOMAIN streams : \A p \in StageEvents :
          Handles(s, p) =>
              \A i \in DOMAIN Messages :
                  (Messages[i].type = "user" /\ i # UserOf(s)) =>
                      /\ chatState'.messages[i].processSteps = Messages[i].processSteps
                      /\ chatState'.messages[i].searchMetadata = Messages[i].searchMetadata]_vars

\* C23: after a transport failure in the middle of a turn, isLoading is
\* false and no stage of the turn's user entry is running.
C23_FailureIsTerminal ==
    \A s \in DOMAIN streams :
        (ev = <<"read", s, "failed">> \/ ev = <<"fetch", s, "failed">>)
        => /\ ~chatState.isLoading
           /\ Running(Messages[UserOf(s)].processSteps) = {}

----------------------------------------------------------------------------
(* Closing of a turn *)

\* The steps of the invocations themselves: every pending continuation of
\* an async invocation is eventually run by the event loop, and a pending
\* fetch or read eventually settles.
StreamSteps ==
    \/ \E s \in DOMAIN streams : FetchOk(s)
    \/ \E s \in DOMAIN streams : FetchFail(s)
    \/ \E s \in DOMAIN streams : ProcessLine(s, TokenPayloads)
    \/ \E s \in DOMAIN streams : EndOfChunk(s)
    \/ \E s \in DOMAIN streams : ReadDone(s)
    \/ \E s \in DOMAIN streams : ReadFail(s)

\* The token model in which no invocation is left waiting for ever.
SpecTokensFair == SpecTokens /\ WF_vars(StreamSteps)

\* Every invocation made so far has returned.
TransportEnded ==
    /\ streams # <<>>
    /\ \A s \in DOMAIN streams : streams[s].pc = "returned"

\* C24: once the transport of every accepted send has ended (end-of-stream
\* after any number of chunks, zero included) or failed, isLoading
\* eventually becomes false, so that a later send can be accepted.
C24_EventuallyCloses == TransportEnded ~> ~chatState.isLoading

----------------------------------------------------------------------------
(* The session id *)

\* A step event on which the server names another session.
SessionFrame == J("step", "start", <<>>, "s2")
SessionPayloads == { Token("A"), SessionFrame, ErrorFrame }
SessionChunks == LineChunks(SessionPayloads, 1)

NextSession ==
    \/ sendMessageWithQuery(<<"q">>, MaxTurns)
    \/ \E s \in DOMAIN streams : FetchOk(s)
    \/ \E s \in DOMAIN streams : FetchFail(s)
    \/ \E s \in DOMAIN streams : \E c \in SessionChunks : \E d \in {0, 1} : ReadChunk(s, c, d, MaxChunks)
    \/ \E s \in DOMAIN streams : ProcessLine(s, {})
    \/ \E s \in DOMAIN streams : EndOfChunk(s)
    \/ \E s \in DOMAIN streams : ReadDone(s)
    \/ \E s \in DOMAIN streams : ReadFail(s)

SpecSession == Init /\ [][NextSession]_vars

\* The step about to be taken is an accepted send.
Sends == Len(streams') = Len(streams) + 1

\* The session id is null exactly until the first accepted send.
NullUntilFirstSend == (chatState.sessionId = NoSession) <=> (streams = <<>>)

\* Every accepted send sends the session id the state holds after it, which
\* is the one it held before unless that was null.
CarriesSessionId ==
    Sends =>
        /\ streams'[Len(streams')].session_id = chatState'.sessionId
        /\ chatState.sessionId # NoSession => chatState'.sessionId = chatState.sessionId

\* C25 (as stated): sessionId is null until the first accepted send, is set
\* by that send and never changes afterwards, whatever frames arrive; every
\* later request carries that same session id.
C25_SessionImmutable ==
    /\ []NullUntilFirstSend
    /\ [][/\ CarriesSessionId
           /\ chatState.sessionId # NoSession => chatState'.sessionId = chatState.sessionId]_vars

\* C25 (amended): sessionId is null until the first accepted send and is set
\* by that send; afterwards it changes only when a well-formed frame without
\* an error field carries a session_id, and then it becomes that session_id;
\* every request carries the session id current when it is sent.
C25_SessionFollowsServer ==
    /\ []NullUntilFirstSend
    /\ [][/\ CarriesSessionId
           /\ chatState.sessionId # NoSession /\ chatState'.sessionId # chatState.sessionId
              => \E s \in DOMAIN streams : \E p \in SessionPayloads :
                    /\ Handles(s, p)
                    /\ ~JError(p)
                    /\ JSessionId(p) # ""
                    /\ chatState'.sessionId = JSessionId(p)]_vars

\* A frame has replaced the session id and the second request carries the
\* replacement.
C25_Witness ==
    /\ Len(streams) = 2
    /\ chatState.sessionId = JSessionId(SessionFrame)
    /\ streams[2].session_id = JSessionId(SessionFrame)
    /\ streams[1].session_id = RandomUUID

----------------------------------------------------------------------------
(* [DONE] and the end of the transport *)

\* The step about to be taken is reader.read() of invocation s yielding done.
TransportEnds(s) ==
    /\ streams[s].pc = "read"
    /\ ev' = <<"read", s, "done">>

\* C26: a [DONE] frame, and the end of the transport, set isLoading to false
\* and change nothing else: messages (a partly streamed assistant entry and
\* its content included), currentStreamingMessageId, the stages,
\* workflowType and sessionId stay as they are.
C26_DoneClearsOnlyLoading ==
    [][\A s \in DOMAIN streams :
          (Handles(s, DoneText) \/ TransportEnds(s))
          => chatState' = ClearLoading(chatState)]_vars

----------------------------------------------------------------------------
(* Progress and completion signals *)

\* The stages the progress rule gives for the k-th canonical stage: the
\* stages before it completed, it running, the stages after it pending.
ProgressStages(k) ==
    [j \in DOMAIN StepIds |->
        [id |-> StepIds[j],
         status |-> IF j < k THEN "completed" ELSE IF j = k THEN "running" ELSE "pending"]]

\* steps with the stage of the given id completed and the others as they are.
WithCompleted(steps, id) ==
    [j \in DOMAIN steps |->
        IF steps[j].id = id THEN [steps[j] EXCEPT !.status = "completed"] ELSE steps[j]]

\* C27: a step event naming the canonical stage s, in a turn whose variant
\* is unknown or search, leaves exactly: every stage ranked below s
\* completed, s running, every stage ranked above s pending, whatever the
\* statuses were before.
C27_ProgressRule ==
    [][\A s \in DOMAIN streams : \A k \in DOMAIN StepIds :
          (/\ Handles(s, Step(StepIds[k]))
           /\ chatState.workflowType \in {NoWorkflow, "search"})
          => \A i \in TurnEntries :
                chatState'.messages[i].processSteps = ProgressStages(k)]_vars

\* C28: a step event carrying a completion signal sets exactly its matching
\* stage to completed and leaves the status of every other stage and the
\* workflow variant unchanged.
C28_CompletionSignal ==
    [][\A s \in DOMAIN streams : \A pair \in CompletionPairs :
          Handles(s, Step(pair[1]))
          => /\ chatState'.workflowType = chatState.workflowType
             /\ \A i \in TurnEntries :
                   chatState'.messages[i].processSteps
                       = WithCompleted(Messages[i].processSteps, pair[2])]_vars

\* C29: a step_complete event naming a canonical stage sets that stage to
\* completed on the turn's user entry, whatever its status and rank and at
\* any point of the open turn, before or after the first token, and leaves
\* every other stage unchanged.
C29_StepCompleteUnconditional ==
    [][\A s \in DOMAIN streams : \A k \in DOMAIN StepIds :
          Handles(s, StepComplete(StepIds[k]))
          => \A i \in TurnEntries :
                /\ chatState'.messages[i].processSteps
                       = WithCompleted(Messages[i].processSteps, StepIds[k])
                /\ chatState'.messages[i].processSteps[k].status = "completed"]_vars

\* C30: after a step event extracting_product_details, the stage
\* extract_product_data of the turn's user entry has status running.
C30_AliasRuns ==
    \A s \in DOMAIN streams :
        (/\ Handled(s, Step("extracting_product_details"))
         /\ chatState.processSteps # <<>>)
        => \A i \in TurnEntries :
              \E k \in DOMAIN Messages[i].processSteps :
                  /\ Messages[i].processSteps[k].id = "extract_product_data"
                  /\ Messages[i].processSteps[k].status = "running"

----------------------------------------------------------------------------
(* The first token of a turn *)

SystemEntries(msgs) == {i \in DOMAIN msgs : msgs[i].type = "system"}

\* What the first token p of the turn of invocation s leaves behind.
FirstTokenEffect(s, p) ==
    LET after == chatState'.messages
        n == Len(Messages)
        u == UserOf(s)
    IN /\ SystemEntries(after) = {}
       /\ Len(after) = n - Cardinality(SystemEntries(Messages)) + 1
       /\ after[Len(after)].type = "ai"
       /\ after[Len(after)].isStreaming
       /\ after[Len(after)].content = <<JA(p)>>
       /\ chatState'.currentStreamingMessageId = after[Len(after)].id
       /\ Len(after[u].processSteps) = Len(Messages[u].processSteps)
       /\ \A k \in DOMAIN after[u].processSteps :
             after[u].processSteps[k].status = "completed"

\* C31: the first token event of a turn removes every system entry, sets
\* every stage of the turn's user entry to completed, appends exactly one
\* assistant entry marked isStreaming whose content is the token text and
\* points currentStreamingMessageId at it; after a first token or a complete
\* event no system entry remains in messages.
C31_FirstToken ==
    [][/\ \A s \in DOMAIN streams : \A p \in TokenPayloads :
             (Handles(s, p) /\ streams[s].hist = <<>>) => FirstTokenEffect(s, p)
       /\ \A s \in DOMAIN streams :
             (\E p \in TokenPayloads : Handles(s, p)) \/ HandlesComplete
             => SystemEntries(chatState'.messages) = {}]_vars

----------------------------------------------------------------------------
(* The stage list of a turn *)

\* The ids of a stage list, in order.
IdsOf(steps) == [k \in DOMAIN steps |-> steps[k].id]

\* C32: in every state reached after the send, the user entry of every turn
\* carries exactly the eight canonical stage ids in canonical order: events
\* change statuses and never drop, add or reorder stages.
C32_StageListFixed ==
    \A i \in DOMAIN Messages :
        Messages[i].type = "user" => IdsOf(Messages[i].processSteps) = StepIds

----------------------------------------------------------------------------
(* tool_end without a running tool entry of its name *)

----------------------------------------------------------------------------
(* The output summary: tool outputs of several lengths, one turn *)

\* A string tool_output of n characters.
Output(n) == [i \in 1..n |-> "x"]

\* tool_end with an output that is absent or empty, short, exactly at the
\* limit, and one character over it.
SummaryPayloads ==
    {ToolStart("t1")}
        \cup {ToolEnd("t1", Output(n)) : n \in {0, 1, SummaryLimit, SummaryLimit + 1}}

NextSummary ==
    \/ sendMessageWithQuery(<<"q">>, 1)
    \/ \E s \in DOMAIN streams : FetchOk(s)
    \/ \E s \in DOMAIN streams : FetchFail(s)
    \/ \E s \in DOMAIN streams : \E c \in LineChunks(SummaryPayloads, 1) : ReadChunk(s, c, 0, MaxToolEvents)
    \/ \E s \in DOMAIN streams : ProcessLine(s, {})
    \/ \E s \in DOMAIN streams : EndOfChunk(s)
    \/ \E s \in DOMAIN streams : ReadDone(s)
    \/ \E s \in DOMAIN streams : ReadFail(s)

SpecSummary == Init /\ [][NextSummary]_vars

\* C34: the output_summary a tool_end attaches is at most 100 characters
\* long for every tool_output, outputs of more than 100 characters
\* included, and is the empty string when tool_output is absent.
C34_SummaryBounded ==
    /\ [](\A i \in DOMAIN Messages : Len(Messages[i].output_summary) <= SummaryLimit)
    /\ [][\A s \in DOMAIN streams :
             (Handles(s, ToolEnd("t1", Output(0))) /\ RunningTools("t1") # {})
             => \A i \in RunningTools("t1") :
                   chatState'.messages[i].output_summary = <<>>]_vars

----------------------------------------------------------------------------
(* The search metadata: search_metadata, token and complete events, two turns *)

SearchMetadata(metadata) == J("search_metadata", metadata, <<>>, "")

MetadataValues == { "m1", "m2" }
MetadataPayloads ==
    {SearchMetadata(m) : m \in MetadataValues} \cup {Token("A"), Complete("R", <<"Q1">>)}

NextMetadata ==
    \/ sendMessageWithQuery(<<"q">>, MaxTurns)
    \/ \E s \in DOMAIN streams : FetchOk(s)
    \/ \E s \in DOMAIN streams : FetchFail(s)
    \/ \E s \in DOMAIN streams : \E c \in LineChunks(MetadataPayloads, 1) : ReadChunk(s, c, 0, MaxChunks)
    \/ \E s \in DOMAIN streams : ProcessLine(s, {})
    \/ \E s \in DOMAIN streams : EndOfChunk(s)
    \/ \E s \in DOMAIN streams : ReadDone(s)
    \/ \E s \in DOMAIN streams : ReadFail(s)

SpecMetadata == Init /\ [][NextMetadata]_vars

----------------------------------------------------------------------------
(* The opening of a turn *)

\* C36: every accepted send appends exactly one user entry carrying the
\* eight canonical stages, all pending, sets isLoading to true, workflowType
\* and currentStreamingMessageId to null and currentRequestId to the new
\* request id, and leaves all earlier entries unchanged, however the
\* previous turn ended.
C36_FreshTurn ==
    [][Sends =>
          LET n == Len(Messages)
              after == chatState'.messages
          IN /\ Len(after) = n + 1
             /\ SubSeq(after, 1, n) = Messages
             /\ after[n + 1].type = "user"
             /\ after[n + 1].processSteps = getProcessSteps
             /\ IdsOf(after[n + 1].processSteps) = StepIds
             /\ chatState'.isLoading
             /\ chatState'.workflowType = NoWorkflow
             /\ chatState'.currentStreamingMessageId = NoId
             /\ chatState'.currentRequestId # NoId
             /\ chatState'.currentRequestId = after[n + 1].requestId
             /\ \A i \in 1..n : Messages[i].requestId # after[n + 1].requestId]_vars

\* The second turn has just been opened after a turn of the general variant
\* whose stages were fast-forwarded: the variant is unknown again and the
\* new user entry has its stages pending.
C36_Witness ==
    /\ Len(streams) = 2
    /\ ev = <<"sendMessageWithQuery">>
    /\ FastForwarded(Messages[UserOf(1)].processSteps)
    /\ streams[1].hist = <<Step("handle_general_query")>>
    /\ chatState.workflowType = NoWorkflow
    /\ Messages[UserOf(2)].processSteps = getProcessSteps

----------------------------------------------------------------------------
(* The history: token, tool and complete events, two turns *)

HistoryPayloads ==
    { Token("A"), ToolStart("t1"), ToolEnd("t1", <<"o">>), Complete("R", <<"Q1">>) }

NextHistory ==
    \/ sendMessageWithQuery(<<"q">>, MaxTurns)
    \/ \E s \in DOMAIN streams : FetchOk(s)
    \/ \E s \in DOMAIN streams : FetchFail(s)
    \/ \E s \in DOMAIN streams : \E c \in LineChunks(HistoryPayloads, 1) : ReadChunk(s, c, 0, MaxChunks)
    \/ \E s \in DOMAIN streams : ProcessLine(s, {})
    \/ \E s \in DOMAIN streams : EndOfChunk(s)
    \/ \E s \in DOMAIN streams : ReadDone(s)
    \/ \E s \in DOMAIN streams : ReadFail(s)

SpecHistory == Init /\ [][NextHistory]_vars

\* C37: no event, send or failure removes or reorders a user, assistant or
\* tool entry of messages, and the content of an assistant entry only grows
\* by a suffix; only entries of type system are ever removed.
C37_AppendOnly ==
    [][LET before == SelectSeqNot(Messages, "system")
           after == SelectSeqNot(chatState'.messages, "system")
       IN /\ Len(before) <= Len(after)
          /\ \A i \in DOMAIN before :
                /\ after[i].id = before[i].id
                /\ after[i].type = before[i].type
                /\ after[i].type = "ai"
                   => /\ Len(before[i].content) <= Len(after[i].content)
                      /\ SubSeq(after[i].content, 1, Len(before[i].content))
                            = before[i].content
                /\ after[i].type = "user" => after[i].content = before[i].content]_vars

\* Two turns: the streamed answer of the first, grown to two tokens, and its
\* tool entry are still in place above the user entry of the second turn
\* and the apology that came after them.
C37_Witness ==
    /\ Len(streams) = 2
    /\ \E i, j, k \in DOMAIN Messages :
          /\ UserOf(1) < i /\ i < UserOf(2) /\ UserOf(2) < k
          /\ Messages[i].type = "ai" /\ Messages[i].content = <<"A", "A">>
          /\ UserOf(1) < j /\ j < UserOf(2) /\ Messages[j].type = "tool"
          /\ Messages[k].content = ApologyText

----------------------------------------------------------------------------
(* Repeated stage events: each event once or twice in a row, one turn *)

RepeatPayloads ==
    { Step("start"), Step("optimize_search_query"), Step("search_products"),
      Step("handle_general_query"), Step("search_completed"), Step("completed"),
      StepComplete("search_products"), Token("A") }

NextRepeat ==
    \/ sendMessageWithQuery(<<"q">>, 1)
    \/ \E s \in DOMAIN streams : FetchOk(s)
    \/ \E s \in DOMAIN streams : FetchFail(s)
    \/ \E s \in DOMAIN streams : \E p \in RepeatPayloads :
          \E c \in {DataLine(p), DataLine(p) \o DataLine(p)} : ReadChunk(s, c, 0, MaxChunks)
    \/ \E s \in DOMAIN streams : ProcessLine(s, RepeatPayloads)
    \/ \E s \in DOMAIN streams : EndOfChunk(s)
    \/ \E s \in DOMAIN streams : ReadDone(s)
    \/ \E s \in DOMAIN streams : ReadFail(s)

SpecRepeat == Init /\ [][NextRepeat]_vars

\* The stage statuses and the workflow variant of a state.
StagesOf(state) ==
    << state.processSteps, state.workflowType,
       [i \in DOMAIN state.messages |-> state.messages[i].processSteps] >>

\* C38: applying the same step event or the same step_complete event twice
\* in succession yields the same stage statuses and workflow variant as
\* applying it once.
C38_StepIdempotent ==
    [][\A s \in DOMAIN streams : \A p \in RepeatPayloads :
          (Handled(s, p) /\ Handles(s, p) /\ JType(p) \in {"step", "step_complete"})
          => StagesOf(chatState') = StagesOf(chatState)]_vars

\* The progress signal search_products was handled twice in a row after
\* start: search_products is running and the stages before it completed.
C38_Witness ==
    \E s \in DOMAIN streams :
        /\ streams[s].hist = <<Step("start"), Step("search_products"), Step("search_products")>>
        /\ Handled(s, Step("search_products"))
        /\ Messages[UserOf(s)].processSteps = ProgressStages(4)

----------------------------------------------------------------------------
(* The current streaming entry *)

\* The entries whose id is currentStreamingMessageId.
CurrentStreaming ==
    {i \in DOMAIN Messages : Messages[i].id = chatState.currentStreamingMessageId}

\* C39: in every reachable state, when currentStreamingMessageId is not null
\* it is the id of an assistant entry present in messages that a token event
\* of the currently open turn created, so that no token event is dropped:
\* every token event extends the content of an assistant entry or creates one.
C39_StreamingIdValid ==
    /\ [](chatState.currentStreamingMessageId # NoId
          => /\ Cardinality(CurrentStreaming) = 1
             /\ chatState.currentRequestId # NoId
             /\ \A i \in CurrentStreaming :
                   /\ Messages[i].type = "ai"
                   /\ HoldsTokens(i)
                   /\ i \in TurnOf(LastUser))
    /\ [][\A s \in DOMAIN streams : \A p \in TokenPayloads :
             Handles(s, p) => chatState'.messages # Messages]_vars

----------------------------------------------------------------------------
(* The hidden stage generate_suggested_questions, two turns *)

HiddenPayloads ==
    { Step("generate_suggested_questions"), StepComplete("generate_suggested_questions") }
SuggestPayloads ==
    HiddenPayloads \cup
        { Step("start"), Step("search_products"), Token("A"), Complete("R", <<"Q1">>) }

NextSuggest ==
    \/ sendMessageWithQuery(<<"q">>, MaxTurns)
    \/ \E s \in DOMAIN streams : FetchOk(s)
    \/ \E s \in DOMAIN streams : FetchFail(s)
    \/ \E s \in DOMAIN streams : \E c \in LineChunks(SuggestPayloads, 1) : ReadChunk(s, c, 0, MaxChunks)
    \/ \E s \in DOMAIN streams : ProcessLine(s, HiddenPayloads \cup {Step("search_products")})
    \/ \E s \in DOMAIN streams : EndOfChunk(s)
    \/ \E s \in DOMAIN streams : ReadDone(s)
    \/ \E s \in DOMAIN streams : ReadFail(s)

SpecSuggest == Init /\ [][NextSuggest]_vars

\* C40: a step event and a step_complete event naming
\* generate_suggested_questions change nothing: stage statuses, workflow
\* variant and messages are as before, at any point of the turn.
C40_HiddenStageIgnored ==
    [][\A s \in DOMAIN streams : \A p \in HiddenPayloads :
          Handles(s, p) => chatState' = chatState]_vars

\* Both events were handled while search_products was running: it still is,
\* with the stages before it completed.
C40_Witness ==
    \E s \in DOMAIN streams :
        /\ Handled(s, StepComplete("generate_suggested_questions"))
        /\ streams[s].hist = << Step("search_products"),
                                Step("generate_suggested_questions"),
                                StepComplete("generate_suggested_questions") >>
        /\ Messages[UserOf(s)].processSteps = ProgressStages(4)
        /\ chatState.processSteps = ProgressStages(4)
====
